---- MODULE Spec2Model ----
(***************************************************************************)
(* Model of kraken.std.cargo.manifest: the partial-schema Cargo manifest   *)
(* (CargoManifest, Package, Workspace, WorkspacePackage, Dependencies,     *)
(* Bin) and the metadata extractor (CargoMetadata).                        *)
(*                                                                         *)
(* A Python dict is a function from a finite set of string keys.  A Python *)
(* list is a sequence.  "x | None" is a sequence of length at most one:    *)
(* None is <<>> and a value x is <<x>>.  The text of a TOML file is     *)
(* recorded by the document it encodes.                                    *)
(***************************************************************************)
EXTENDS Integers, Sequences, FiniteSets, TLC

(***************************************************************************)
(* Bounds of the explored inputs.                                          *)
(***************************************************************************)
MaxWeight == 3       \* total number of entries of a manifest document
MaxMembers == 1      \* length of a workspace.members array
MaxBin == 2          \* length of a bin array
MaxMutations == 1    \* caller assignments between load and serialization
MaxMetaWeight == 4   \* packages plus targets of a metadata document

(***************************************************************************)
(* Optional values and dict operations.                                    *)
(***************************************************************************)
None == <<>>
Some(x) == <<x>>
IsNone(o) == Len(o) = 0
Val(o) == o[1]

EmptyDict == [k \in {} |-> k]
Restrict(d, S) == [k \in S |-> d[k]]
\* d.pop(k, None): the dict after the call
Pop(d, k) == Restrict(d, DOMAIN d \ {k})
\* d.pop(k, None) / d.get(k): the value returned
Get(d, k) == IF k \in DOMAIN d THEN Some(d[k]) ELSE None
\* d[k] = v
Put(d, k, v) == [x \in DOMAIN d \cup {k} |-> IF x = k THEN v ELSE d[x]]
\* a.update(b): the entries of b win
Update(a, b) == [k \in DOMAIN a \cup DOMAIN b |-> IF k \in DOMAIN b THEN b[k] ELSE a[k]]
\* {k: v for k, v in values.items() if v is not None}
DropNone(values) ==
    LET keep == {k \in DOMAIN values : ~IsNone(values[k])}
    IN  [k \in keep |-> Val(values[k])]
\* a dict whose values are kept as optional values: parsed TOML holds no None
Wrap(d) == [k \in DOMAIN d |-> Some(d[k])]
\* {k: v for k, v in self.unhandled.items() if v is not None}
NotNone(d) == Restrict(d, {k \in DOMAIN d : ~IsNone(d[k])})

Max(a, b) == IF a >= b THEN a ELSE b

(***************************************************************************)
(* Bin                                                                     *)
(***************************************************************************)
\* Bin(**x) raises TypeError: a keyword is missing or unexpected
Bin_raises(x) == DOMAIN x # {"name", "path"}

\* Bin(**x)
Bin(x) == [name |-> x["name"], path |-> x["path"]]

Bin_to_json(self) == [k \in {"name", "path"} |-> IF k = "name" THEN self.name ELSE self.path]

(***************************************************************************)
(* Package                                                                 *)
(***************************************************************************)
PackageFields == {"name", "version", "edition"}

\* Package.from_json raises KeyError: "name" is popped without a default
Package_from_json_raises(json) == "name" \notin DOMAIN json

\* ret: the Package returned; arg: the dict passed in, as the call leaves it
Package_from_json_inplace(json) ==
    LET cloned  == json
        name    == cloned["name"]
        c1      == Pop(cloned, "name")
        version == Get(c1, "version")
        c2      == Pop(c1, "version")
        edition == Get(c2, "edition")
        c3      == Pop(c2, "edition")
    IN  [ret |-> [name |-> name, version |-> version, edition |-> edition, unhandled |-> Wrap(c3)],
         arg |-> c3]

Package_from_json_dropping(json) ==
    [ret |-> [name |-> json["name"], version |-> Get(json, "version"),
              edition |-> Get(json, "edition"), unhandled |-> EmptyDict],
     arg |-> json]

Package_from_json(json) ==
    LET cloned  == json
        name    == cloned["name"]
        c1      == Pop(cloned, "name")
        version == Get(c1, "version")
        c2      == Pop(c1, "version")
        edition == Get(c2, "edition")
        c3      == Pop(c2, "edition")
    IN  [ret |-> [name |-> name, version |-> version, edition |-> edition, unhandled |-> Wrap(c3)],
         arg |-> json]

Package_to_json_stale(self) ==
    DropNone(Update([f \in PackageFields |->
                        CASE f = "name" -> Some(self.name)
                          [] f = "version" -> None
                          [] f = "edition" -> self.edition],
                    NotNone(self.unhandled)))

Package_to_json(self) ==
    LET values == [f \in PackageFields |->
                      CASE f = "name" -> Some(self.name)
                        [] f = "version" -> self.version
                        [] f = "edition" -> self.edition]
        merged == Update(values, NotNone(self.unhandled))
    IN  DropNone(merged)

(***************************************************************************)
(* WorkspacePackage                                                        *)
(***************************************************************************)
WorkspacePackageFields == {"version"}

\* WorkspacePackage.from_json raises KeyError: "version" is popped without a default
WorkspacePackage_from_json_raises(json) == "version" \notin DOMAIN json

WorkspacePackage_from_json(json) ==
    LET cloned  == json
        version == cloned["version"]
        c1      == Pop(cloned, "version")
    IN  [ret |-> [version |-> version, unhandled |-> Wrap(c1)], arg |-> json]

WorkspacePackage_to_json(self) ==
    LET values == [f \in WorkspacePackageFields |-> Some(self.version)]
        merged == Update(values, NotNone(self.unhandled))
    IN  DropNone(merged)

(***************************************************************************)
(* Workspace                                                               *)
(***************************************************************************)
WorkspaceFields == {"package", "members"}

Workspace_from_json_raises(json) ==
    "package" \in DOMAIN json /\ WorkspacePackage_from_json_raises(json["package"])

Workspace_from_json(json) ==
    LET cloned  == json
        sub     == IF "package" \in DOMAIN cloned
                   THEN Some(WorkspacePackage_from_json(cloned["package"])) ELSE None
        c1      == Pop(cloned, "package")
        members == Get(c1, "members")
        c2      == Pop(c1, "members")
    IN  [ret |-> [package |-> IF IsNone(sub) THEN None ELSE Some(Val(sub).ret),
                  members |-> members, unhandled |-> Wrap(c2)],
         arg |-> IF IsNone(sub) THEN json ELSE Put(json, "package", Val(sub).arg)]

\* "self.members if self.members else None": an empty list is falsy
TruthyList(o) == IF IsNone(o) THEN None ELSE IF Len(Val(o)) = 0 THEN None ELSE o

Workspace_to_json(self) ==
    LET values == [f \in WorkspaceFields |->
                      CASE f = "package" -> IF IsNone(self.package) THEN None
                                            ELSE Some(WorkspacePackage_to_json(Val(self.package)))
                        [] f = "members" -> TruthyList(self.members)]
        merged == Update(values, NotNone(self.unhandled))
    IN  DropNone(merged)

(***************************************************************************)
(* Dependencies                                                            *)
(***************************************************************************)
Dependencies_from_json(json) == [ret |-> [data |-> json], arg |-> json]

Dependencies_to_json(self) == self.data

(***************************************************************************)
(* CargoManifest                                                           *)
(***************************************************************************)
\* CargoManifest.of raises KeyError (from Package.from_json or WorkspacePackage.from_json)
CargoManifest_of_raises(data) ==
    \/ "package" \in DOMAIN data /\ Package_from_json_raises(data["package"])
    \/ "workspace" \in DOMAIN data /\ Workspace_from_json_raises(data["workspace"])

\* CargoManifest.of raises TypeError (from Bin(**x)), once the sections are built
CargoManifest_of_raises_TypeError(data) ==
    "bin" \in DOMAIN data /\ \E i \in 1..Len(data["bin"]) : Bin_raises(data["bin"][i])

\* the exception CargoManifest.of raises, "" when it returns
CargoManifest_of_error(data) ==
    IF CargoManifest_of_raises(data) THEN "KeyError"
    ELSE IF CargoManifest_of_raises_TypeError(data) THEN "TypeError"
    ELSE ""

\* data.get("bin", [])
GetBin(data) == IF "bin" \in DOMAIN data THEN data["bin"] ELSE <<>>

\* The section tables are passed to from_json by reference: _data holds them as
\* the calls leave them.
CargoManifest_of(path, data) ==
    LET pk  == IF "package" \in DOMAIN data
               THEN Some(Package_from_json(data["package"])) ELSE None
        ws  == IF "workspace" \in DOMAIN data
               THEN Some(Workspace_from_json(data["workspace"])) ELSE None
        dp  == IF "dependencies" \in DOMAIN data
               THEN Some(Dependencies_from_json(data["dependencies"])) ELSE None
        d1  == IF IsNone(pk) THEN data ELSE Put(data, "package", Val(pk).arg)
        d2  == IF IsNone(ws) THEN d1 ELSE Put(d1, "workspace", Val(ws).arg)
        d3  == IF IsNone(dp) THEN d2 ELSE Put(d2, "dependencies", Val(dp).arg)
        raw == GetBin(data)
    IN  [_path        |-> path,
         _data        |-> d3,
         package      |-> IF IsNone(pk) THEN None ELSE Some(Val(pk).ret),
         workspace    |-> IF IsNone(ws) THEN None ELSE Some(Val(ws).ret),
         dependencies |-> IF IsNone(dp) THEN None ELSE Some(Val(dp).ret),
         bin          |-> [i \in 1..Len(raw) |-> Bin(raw[i])]]

CargoManifest_read_raises_either(ret) == IsNone(ret.package) \/ IsNone(ret.workspace)

\* The check of CargoManifest.read after of() returned
CargoManifest_read_raises(ret) == IsNone(ret.package) /\ IsNone(ret.workspace)

CargoManifest_to_json_keeping_bin(self) ==
    LET r0 == self._data
        r1 == IF Len(self.bin) > 0
              THEN Put(r0, "bin", [i \in 1..Len(self.bin) |-> Bin_to_json(self.bin[i])])
              ELSE r0
        r2 == IF ~IsNone(self.package)
              THEN Put(r1, "package", Package_to_json(Val(self.package))) ELSE r1
        r3 == IF ~IsNone(self.workspace)
              THEN Put(r2, "workspace", Workspace_to_json(Val(self.workspace))) ELSE r2
    IN  IF ~IsNone(self.dependencies)
        THEN Put(r3, "dependencies", Dependencies_to_json(Val(self.dependencies))) ELSE r3

CargoManifest_to_json_eliding(self) ==
    LET r0 == self._data
        r1 == IF Len(self.bin) > 0
              THEN Put(r0, "bin", [i \in 1..Len(self.bin) |-> Bin_to_json(self.bin[i])])
              ELSE Pop(r0, "bin")
        r2 == IF ~IsNone(self.package)
              THEN Put(r1, "package", Package_to_json(Val(self.package)))
              ELSE Pop(r1, "package")
        r3 == IF ~IsNone(self.workspace)
              THEN Put(r2, "workspace", Workspace_to_json(Val(self.workspace)))
              ELSE Pop(r2, "workspace")
    IN  IF ~IsNone(self.dependencies)
        THEN Put(r3, "dependencies", Dependencies_to_json(Val(self.dependencies)))
        ELSE Pop(r3, "dependencies")

\* A dataclass instance is always truthy, so "if self.package:" tests "is not None".
CargoManifest_to_json(self) ==
    LET r0 == self._data
        r1 == IF Len(self.bin) > 0
              THEN Put(r0, "bin", [i \in 1..Len(self.bin) |-> Bin_to_json(self.bin[i])])
              ELSE Pop(r0, "bin")
        r2 == IF ~IsNone(self.package)
              THEN Put(r1, "package", Package_to_json(Val(self.package))) ELSE r1
        r3 == IF ~IsNone(self.workspace)
              THEN Put(r2, "workspace", Workspace_to_json(Val(self.workspace))) ELSE r2
    IN  IF ~IsNone(self.dependencies)
        THEN Put(r3, "dependencies", Dependencies_to_json(Val(self.dependencies))) ELSE r3

(***************************************************************************)
(* TOML text.  A text is recorded by the document it encodes; whole says   *)
(* whether all of it is there or only a non-empty proper prefix of it.     *)
(***************************************************************************)
TopKeys == {"package", "workspace", "dependencies", "bin", "profile"}

\* tomli_w.dumps
tomli_w_dumps(doc) == [whole |-> TRUE, doc |-> doc]

\* what a write that failed part-way leaves of tomli_w.dumps(doc)
Truncated(doc) == [whole |-> FALSE, doc |-> doc]

\* a file of zero bytes
EmptyFile == tomli_w_dumps(EmptyDict)

\* tomli.load, of a whole text
tomli_load(text) == text.doc

(***************************************************************************)
(* The manifest documents explored.                                        *)
(***************************************************************************)
PackageKeys == {"name", "version", "edition", "authors"}
PackageValue == [name |-> "foo", version |-> "0.1.0", edition |-> "2021", authors |-> "me"]
PackageTables == {[k \in S |-> PackageValue[k]] : S \in SUBSET PackageKeys}

WorkspacePackageKeys == {"version", "license"}
WorkspacePackageValue == [version |-> "1.0.0", license |-> "MIT"]
WorkspacePackageTables ==
    {[k \in S |-> WorkspacePackageValue[k]] : S \in SUBSET WorkspacePackageKeys}

MemberName(i) == IF i = 1 THEN "crates/a" ELSE IF i = 2 THEN "crates/b" ELSE "crates/c"
MemberLists == {[i \in 1..n |-> MemberName(i)] : n \in 0..MaxMembers}

WorkspaceKeys == {"package", "members", "resolver"}
WorkspaceTables ==
    {[k \in S |-> CASE k = "package" -> wp
                    [] k = "members" -> ms
                    [] k = "resolver" -> "2"] :
        S \in SUBSET WorkspaceKeys, wp \in WorkspacePackageTables, ms \in MemberLists}

DependencyTables == {[k \in S |-> "1.0"] : S \in SUBSET {"bar"}}

BinEntry(i) ==
    [k \in {"name", "path"} |->
        IF k = "name" THEN (IF i = 1 THEN "cli" ELSE IF i = 2 THEN "tool" ELSE "aux")
        ELSE (IF i = 1 THEN "src/cli.rs" ELSE IF i = 2 THEN "src/tool.rs" ELSE "src/aux.rs")]
\* a [[bin]] entry as Cargo allows it: also with another key, or without path
BinShapes == {"plain", "extra", "nopath"}
BinEntryOf(i, shape) ==
    CASE shape = "plain" -> BinEntry(i)
      [] shape = "extra" -> Put(BinEntry(i), "test", "false")
      [] shape = "nopath" -> Pop(BinEntry(i), "path")
BinLists ==
    UNION {{[i \in 1..n |-> BinEntryOf(ix[i], sh[i])] :
                ix \in [1..n -> 1..2], sh \in [1..n -> BinShapes]} : n \in 0..MaxBin}

ProfileTable == [k \in {"debug"} |-> "1"]

WorkspaceWeight(w) ==
    Max(1, (IF "package" \in DOMAIN w THEN Max(1, Cardinality(DOMAIN w["package"])) ELSE 0)
         + (IF "members" \in DOMAIN w THEN Max(1, Len(w["members"])) ELSE 0)
         + (IF "resolver" \in DOMAIN w THEN 1 ELSE 0))

\* the number of entries of a document; an empty table or array counts as one
Weight(d) ==
      (IF "package" \in DOMAIN d THEN Max(1, Cardinality(DOMAIN d["package"])) ELSE 0)
    + (IF "workspace" \in DOMAIN d THEN WorkspaceWeight(d["workspace"]) ELSE 0)
    + (IF "dependencies" \in DOMAIN d THEN Max(1, Cardinality(DOMAIN d["dependencies"])) ELSE 0)
    + (IF "bin" \in DOMAIN d THEN Max(1, Len(d["bin"])) ELSE 0)
    + (IF "profile" \in DOMAIN d THEN 1 ELSE 0)

\* the document with the sections that are not None
Document(pk, ws, dp, bn, pf) ==
    LET S == {k \in TopKeys : CASE k = "package" -> ~IsNone(pk)
                                 [] k = "workspace" -> ~IsNone(ws)
                                 [] k = "dependencies" -> ~IsNone(dp)
                                 [] k = "bin" -> ~IsNone(bn)
                                 [] k = "profile" -> ~IsNone(pf)}
    IN  [k \in S |-> CASE k = "package" -> Val(pk)
                      [] k = "workspace" -> Val(ws)
                      [] k = "dependencies" -> Val(dp)
                      [] k = "bin" -> Val(bn)
                      [] k = "profile" -> Val(pf)]

\* None or one of the values
Optional(values) == {None} \cup {Some(v) : v \in values}

\* the documents of at most MaxWeight entries, built section by section
Documents ==
    UNION {UNION {UNION {UNION {
        {d \in {Document(pk, ws, dp, bn, pf) : pf \in Optional({ProfileTable})} :
            Weight(d) <= MaxWeight} :
        dp \in {x \in Optional(DependencyTables) :
                   Weight(Document(pk, ws, x, bn, None)) <= MaxWeight}} :
        ws \in {x \in Optional(WorkspaceTables) :
                   Weight(Document(pk, x, None, bn, None)) <= MaxWeight}} :
        pk \in {x \in Optional(PackageTables) :
                   Weight(Document(x, None, None, bn, None)) <= MaxWeight}} :
        bn \in {x \in Optional(BinLists) : Len(x) = 0 \/ Len(Val(x)) <= MaxWeight}}

(***************************************************************************)
(* CargoMetadata                                                           *)
(***************************************************************************)
\* x in list
In(x, list) == \E i \in 1..Len(list) : list[i] = x

BIN == "ArtifactKind.BIN"
LIB == "ArtifactKind.LIB"

Artifact(name, path, kind) == [name |-> name, path |-> path, kind |-> kind]

WorkspaceMember(package) ==
    [id |-> package["id"], name |-> package["name"], version |-> package["version"],
     edition |-> package["edition"], manifest_path |-> package["manifest_path"]]

\* the body of "for target in package['targets']" for one target
TargetArtifacts_bin_only(target) ==
    IF In("bin", target["kind"])
    THEN <<Artifact(target["name"], target["src_path"], BIN)>>
    ELSE <<>>

TargetArtifacts(target) ==
    IF In("bin", target["kind"])
    THEN <<Artifact(target["name"], target["src_path"], BIN)>>
    ELSE IF In("lib", target["kind"])
         THEN <<Artifact(target["name"], target["src_path"], LIB)>>
         ELSE <<>>

RECURSIVE TargetsLoop(_, _)
TargetsLoop(targets, i) ==
    IF i > Len(targets) THEN <<>>
    ELSE TargetArtifacts(targets[i]) \o TargetsLoop(targets, i + 1)

IsMember_any(id, data) == TRUE

\* "if id in data['workspace_members']"
IsMember(id, data) == In(id, data["workspace_members"])

\* the loop "for package in data['packages']" from index i on
RECURSIVE PackagesLoop(_, _)
PackagesLoop(data, i) ==
    IF i > Len(data["packages"]) THEN [workspace_members |-> <<>>, artifacts |-> <<>>]
    ELSE LET package == data["packages"][i]
             rest    == PackagesLoop(data, i + 1)
         IN  IF IsMember(package["id"], data)
             THEN [workspace_members |-> <<WorkspaceMember(package)>> \o rest.workspace_members,
                   artifacts |-> TargetsLoop(package["targets"], 1) \o rest.artifacts]
             ELSE rest

CargoMetadata_of(path, data) ==
    LET r == PackagesLoop(data, 1)
    IN  [_path |-> path, _data |-> data,
         workspaceMembers |-> r.workspace_members, artifacts |-> r.artifacts]

(***************************************************************************)
(* The metadata documents explored.                                        *)
(***************************************************************************)
Targets ==
    { [name |-> "cli",  src_path |-> "src/main.rs",      kind |-> <<"bin">>],
      [name |-> "core", src_path |-> "src/lib.rs",       kind |-> <<"lib">>],
      [name |-> "demo", src_path |-> "examples/demo.rs", kind |-> <<"example">>],
      [name |-> "ffi",  src_path |-> "src/ffi.rs",       kind |-> <<"cdylib", "lib">>],
      [name |-> "both", src_path |-> "src/both.rs",      kind |-> <<"lib", "bin">>] }

PackageIds == {"a 0.1.0", "b 0.1.0"}

MetadataPackage(id, targets) ==
    [id |-> id, name |-> IF id = "a 0.1.0" THEN "a" ELSE "b", version |-> "0.1.0",
     edition |-> "2021",
     manifest_path |-> IF id = "a 0.1.0" THEN "a/Cargo.toml" ELSE "b/Cargo.toml",
     targets |-> targets]

\* the packages with w - 1 targets
PackagesOfWeight(w) ==
    {MetadataPackage(id, ts) : id \in PackageIds, ts \in [1..(w - 1) -> Targets]}

\* the package lists of at most w packages and targets together
RECURSIVE PackageLists(_)
PackageLists(w) ==
    {<<>>} \cup UNION {{<<p>> \o r : p \in PackagesOfWeight(k), r \in PackageLists(w - k)} :
                          k \in 1..w}

WorkspaceMemberLists ==
    {<<>>, <<"a 0.1.0">>, <<"b 0.1.0">>, <<"b 0.1.0", "a 0.1.0">>, <<"ghost 0.1.0", "a 0.1.0">>}

MetadataDocuments ==
    {[packages |-> ps, workspace_members |-> ms] :
        ps \in PackageLists(MaxMetaWeight), ms \in WorkspaceMemberLists}

(***************************************************************************)
(* State                                                                   *)
(***************************************************************************)
VARIABLES
    pc,        \* "start", "loaded", "failed", "serialized", "saved", "save_failed", "extracted"
    input,     \* the raw manifest document handed to read/of, or None
    manifest,  \* the CargoManifest object, or None
    error,     \* the exception raised by the last call, "" when none
    nmut,      \* assignments made to the manifest since it was loaded
    out,       \* the dict returned by the last to_json(), or None
    fs,        \* the contents of each file
    target,    \* the path the last save() opened, "" before
    mdata,     \* the raw metadata document handed to CargoMetadata.of, or None
    metadata   \* the CargoMetadata object, or None

vars == <<pc, input, manifest, error, nmut, out, fs, target, mdata, metadata>>

SourcePath == "Cargo.toml"
OtherPath == "out/Cargo.toml"
Paths == {SourcePath, OtherPath}

\* what the other file holds before any save
OldDocument == [k \in {"package"} |-> [j \in {"name"} |-> "old"]]

InitialFs(doc) ==
    [p \in Paths |-> IF p = SourcePath THEN tomli_w_dumps(doc) ELSE tomli_w_dumps(OldDocument)]

Init ==
    /\ pc = "start"
    /\ manifest = None
    /\ error = ""
    /\ nmut = 0
    /\ out = None
    /\ target = ""
    /\ metadata = None
    /\ \/ /\ mdata = None
          /\ \E d \in Documents : input = Some(d) /\ fs = InitialFs(d)
       \/ /\ input = None
          /\ fs = InitialFs(OldDocument)
          /\ \E m \in MetadataDocuments : mdata = Some(m)

(***************************************************************************)
(* Loading                                                                 *)
(***************************************************************************)
\* CargoManifest.read(path)
Read ==
    /\ pc = "start"
    /\ ~IsNone(input)
    /\ LET data == tomli_load(fs[SourcePath])
       IN  IF CargoManifest_of_error(data) # ""
           THEN /\ pc' = "failed" /\ error' = CargoManifest_of_error(data) /\ manifest' = None
           ELSE LET ret == CargoManifest_of(SourcePath, data)
                IN  IF CargoManifest_read_raises(ret)
                    THEN /\ pc' = "failed" /\ error' = "ClassError" /\ manifest' = None
                    ELSE /\ pc' = "loaded" /\ error' = "" /\ manifest' = Some(ret)
    /\ UNCHANGED <<input, nmut, out, fs, target, mdata, metadata>>

\* CargoManifest.of(path, data)
Of ==
    /\ pc = "start"
    /\ ~IsNone(input)
    /\ LET data == Val(input)
       IN  IF CargoManifest_of_error(data) # ""
           THEN /\ pc' = "failed" /\ error' = CargoManifest_of_error(data) /\ manifest' = None
           ELSE /\ pc' = "loaded" /\ error' = ""
                /\ manifest' = Some(CargoManifest_of(SourcePath, data))
    /\ UNCHANGED <<input, nmut, out, fs, target, mdata, metadata>>

\* CargoMetadata.of(path, data)
Extract ==
    /\ pc = "start"
    /\ ~IsNone(mdata)
    /\ metadata' = Some(CargoMetadata_of(SourcePath, Val(mdata)))
    /\ pc' = "extracted"
    /\ UNCHANGED <<input, manifest, error, nmut, out, fs, target, mdata>>

(***************************************************************************)
(* Assignments the owner makes to the typed fields of a loaded manifest.   *)
(***************************************************************************)
NewVersion == "0.2.0"
NewBin == Bin(BinEntry(3))
\* the lists a caller assigns to manifest.bin: empty, one entry, two entries
\* out of alphabetical order, the same entry twice
NewBinLists == {<<>>, <<NewBin>>, <<Bin(BinEntry(2)), NewBin>>, <<NewBin, NewBin>>}
Shadow == "shadow"
ShadowMembers == <<"crates/z">>
ShadowPackage == [k \in {"version"} |-> "9.9.9"]

CanMutate == pc = "loaded" /\ nmut < MaxMutations

Assign(m) ==
    /\ manifest' = Some(m)
    /\ nmut' = nmut + 1
    /\ UNCHANGED <<pc, input, error, out, fs, target, mdata, metadata>>

\* manifest.package.version = v
SetPackageVersion ==
    /\ CanMutate
    /\ ~IsNone(Val(manifest).package)
    /\ LET m == Val(manifest)
           p == Val(m.package)
       IN  Assign([m EXCEPT !.package = Some([p EXCEPT !.version = Some(NewVersion)])])

\* manifest.bin = b
SetBin ==
    /\ CanMutate
    /\ \E b \in NewBinLists : Assign([Val(manifest) EXCEPT !.bin = b])

\* manifest.package = None, manifest.workspace = None, manifest.dependencies = None
SetSectionNone ==
    /\ CanMutate
    /\ \E s \in {"package", "workspace", "dependencies"} :
          /\ ~IsNone(Val(manifest)[s])
          /\ Assign([Val(manifest) EXCEPT ![s] = None])

\* manifest.package.unhandled[k] = v, v a string or None
SetPackageUnhandled ==
    /\ CanMutate
    /\ ~IsNone(Val(manifest).package)
    /\ \E k \in PackageKeys, v \in {Some(Shadow), None} :
          LET m == Val(manifest)
              p == Val(m.package)
          IN  Assign([m EXCEPT !.package = Some([p EXCEPT !.unhandled = Put(p.unhandled, k, v)])])

\* manifest.workspace.unhandled[k] = v, v a value or None
SetWorkspaceUnhandled ==
    /\ CanMutate
    /\ ~IsNone(Val(manifest).workspace)
    /\ \E k \in WorkspaceKeys, present \in BOOLEAN :
          LET m == Val(manifest)
              w == Val(m.workspace)
              v == IF ~present THEN None
                   ELSE CASE k = "package" -> Some(ShadowPackage)
                          [] k = "members" -> Some(ShadowMembers)
                          [] k = "resolver" -> Some(Shadow)
          IN  Assign([m EXCEPT !.workspace = Some([w EXCEPT !.unhandled = Put(w.unhandled, k, v)])])

\* manifest.workspace.package.unhandled[k] = v, v a string or None
SetWorkspacePackageUnhandled ==
    /\ CanMutate
    /\ ~IsNone(Val(manifest).workspace)
    /\ ~IsNone(Val(Val(manifest).workspace).package)
    /\ \E k \in WorkspacePackageKeys, v \in {Some(Shadow), None} :
          LET m == Val(manifest)
              w == Val(m.workspace)
              q == Val(w.package)
              q2 == [q EXCEPT !.unhandled = Put(q.unhandled, k, v)]
          IN  Assign([m EXCEPT !.workspace = Some([w EXCEPT !.package = Some(q2)])])

(***************************************************************************)
(* Serialization and persistence                                           *)
(***************************************************************************)
\* manifest.to_json()
Serialize ==
    /\ pc = "loaded"
    /\ out' = Some(CargoManifest_to_json(Val(manifest)))
    /\ pc' = "serialized"
    /\ UNCHANGED <<input, manifest, error, nmut, fs, target, mdata, metadata>>

\* manifest.save(location): open(path, "wb") truncates the file, then
\* tomli_w.dump writes the text of to_json().  Opening may fail, and a write
\* may fail after any number of bytes: the file is then empty or holds a
\* proper prefix of the text.
Save ==
    /\ pc = "loaded"
    /\ \E location \in {None, Some(OtherPath)} :
          LET path   == IF IsNone(location) THEN Val(manifest)._path ELSE Val(location)
              result == CargoManifest_to_json(Val(manifest))
              text   == tomli_w_dumps(result)
          IN  /\ target' = path
              /\ \/ /\ error' = "IOError"      \* path.open("wb") raises
                    /\ pc' = "save_failed"
                    /\ UNCHANGED <<fs, out>>
                 \/ /\ DOMAIN result # {}       \* a write raises
                    /\ error' = "IOError"
                    /\ pc' = "save_failed"
                    /\ out' = Some(result)
                    /\ \E left \in {EmptyFile, Truncated(result)} :
                          fs' = [fs EXCEPT ![path] = left]
                 \/ /\ error' = ""
                    /\ pc' = "saved"
                    /\ out' = Some(result)
                    /\ fs' = [fs EXCEPT ![path] = text]
    /\ UNCHANGED <<input, manifest, nmut, mdata, metadata>>

Next ==
    \/ Read
    \/ Of
    \/ Extract
    \/ SetPackageVersion
    \/ SetBin
    \/ SetSectionNone
    \/ SetPackageUnhandled
    \/ SetWorkspaceUnhandled
    \/ SetWorkspacePackageUnhandled
    \/ Serialize
    \/ Save

Spec == Init /\ [][Next]_vars

(***************************************************************************)
(* Properties                                                              *)
(***************************************************************************)
Raw == Val(input)
M == Val(manifest)
Out == Val(out)
Fresh == CargoManifest_of(SourcePath, Raw)

HasSection(d) == "package" \in DOMAIN d \/ "workspace" \in DOMAIN d

\* the keys popped without a default are there
RequiredKeys(d) ==
    /\ "package" \in DOMAIN d => "name" \in DOMAIN d["package"]
    /\ ("workspace" \in DOMAIN d /\ "package" \in DOMAIN d["workspace"])
          => "version" \in DOMAIN d["workspace"]["package"]

\* every bin entry has the keys name and path and no other
BinShaped(d) ==
    "bin" \in DOMAIN d =>
        \A i \in 1..Len(d["bin"]) : DOMAIN d["bin"][i] = {"name", "path"}

\* the documents of() accepts
WellFormed(d) == RequiredKeys(d) /\ BinShaped(d)

\* d without an empty bin array and without an empty workspace.members array
ElideEmptyArrays(d) ==
    LET d1 == IF "bin" \in DOMAIN d /\ Len(GetBin(d)) = 0 THEN Pop(d, "bin") ELSE d
    IN  IF "workspace" \in DOMAIN d1 /\ "members" \in DOMAIN d1["workspace"]
           /\ Len(Get(d1["workspace"], "members")[1]) = 0
        THEN Put(d1, "workspace", Pop(d1["workspace"], "members"))
        ELSE d1

\* C1 as stated: serializing an unmutated manifest gives back exactly the raw
\* document, empty arrays included.
C1_RoundTripExact ==
    (pc = "serialized" /\ nmut = 0) => Out = Raw

\* C1 amended: serializing an unmutated manifest gives back the raw document
\* with every key and nested value, unrecognized keys and empty tables
\* included, except that an empty bin array and an empty workspace.members
\* array are left out.
C1_RoundTrip ==
    (pc = "serialized" /\ nmut = 0) =>
        /\ WellFormed(Raw)
        /\ Out = ElideEmptyArrays(Raw)
        /\ (Out # Raw => \/ ("bin" \in DOMAIN Raw /\ Raw["bin"] = <<>>)
                         \/ ("workspace" \in DOMAIN Raw /\ "members" \in DOMAIN Raw["workspace"]
                             /\ Raw["workspace"]["members"] = <<>>))

C1_Witness ==
    /\ pc = "serialized" /\ nmut = 0
    /\ "profile" \in DOMAIN Raw
    /\ "package" \in DOMAIN Raw /\ "authors" \in DOMAIN Raw["package"]
    /\ Out = Raw

\* the manifest is the one read from the raw document with package.version replaced
VersionReplaced ==
    /\ nmut = 1
    /\ ~IsNone(Fresh.package)
    /\ M = [Fresh EXCEPT !.package = Some([Val(Fresh.package) EXCEPT !.version = Some(NewVersion)])]

VersionWritten ==
    /\ "package" \in DOMAIN Out
    /\ DOMAIN Out["package"] = DOMAIN Raw["package"] \cup {"version"}
    /\ Out["package"]["version"] = NewVersion
    /\ \A k \in DOMAIN Raw["package"] \ {"version"} : Out["package"][k] = Raw["package"][k]

\* C2 as stated: after package.version is replaced by v, the output's
\* package.version is v, the other package keys are as in D, and every other
\* top-level key of D is unchanged.
C2_PrecedenceExact ==
    (pc = "serialized" /\ VersionReplaced) =>
        /\ VersionWritten
        /\ DOMAIN Out = DOMAIN Raw
        /\ \A k \in DOMAIN Raw \ {"package"} : Out[k] = Raw[k]

\* C2 amended: after package.version is replaced by v, the output's
\* package.version is v, the other package keys are as in D, and every other
\* top-level key of D is unchanged, except that an empty bin array and an empty
\* workspace.members array are left out.
C2_Precedence ==
    (pc = "serialized" /\ VersionReplaced) =>
        /\ VersionWritten
        /\ DOMAIN Out = DOMAIN ElideEmptyArrays(Raw)
        /\ \A k \in DOMAIN Out \ {"package"} : Out[k] = ElideEmptyArrays(Raw)[k]

\* the end-to-end example of the specification
C2_Witness ==
    /\ pc = "serialized" /\ VersionReplaced
    /\ Raw = [k \in {"package", "dependencies"} |->
                 IF k = "package" THEN [name |-> "foo", version |-> "0.1.0"]
                 ELSE [j \in {"bar"} |-> "1.0"]]
    /\ Out = [k \in {"package", "dependencies"} |->
                 IF k = "package" THEN [name |-> "foo", version |-> "0.2.0"]
                 ELSE [j \in {"bar"} |-> "1.0"]]

\* C3 as stated: read fails with the invalid-manifest error (ClassError) and
\* yields no document when the document has neither package nor workspace, and
\* succeeds when it has only workspace or only package.
C3_RequiredPresenceExact ==
    [][Read => IF HasSection(Raw)
               THEN pc' = "loaded" /\ ~IsNone(manifest')
               ELSE pc' = "failed" /\ error' = "ClassError" /\ IsNone(manifest')]_vars

\* C3 amended: of a document whose package table, if any, has a name, whose
\* workspace.package table, if any, has a version, and whose bin entries have
\* exactly the keys name and path, read fails with the invalid-manifest error
\* (ClassError) and yields no document when the document has neither package
\* nor workspace, and succeeds when it has package or workspace.  Of any
\* other document read fails and yields no document: with KeyError when a
\* name or version is missing, else with TypeError.
C3_RequiredPresence ==
    [][Read => IF ~RequiredKeys(Raw)
               THEN pc' = "failed" /\ error' = "KeyError" /\ IsNone(manifest')
               ELSE IF ~BinShaped(Raw)
               THEN pc' = "failed" /\ error' = "TypeError" /\ IsNone(manifest')
               ELSE IF ~HasSection(Raw)
               THEN pc' = "failed" /\ error' = "ClassError" /\ IsNone(manifest')
               ELSE pc' = "loaded" /\ error' = "" /\ ~IsNone(manifest')]_vars

C3_Witness ==
    /\ pc = "failed" /\ error = "ClassError"
    /\ ~HasSection(Raw)
    /\ IsNone(manifest)

MData == Val(mdata)
Meta == Val(metadata)

\* the (package, target) positions that yield an artifact: the package is a
\* workspace member and the target's kind list contains "bin" or "lib"
ArtifactPositions ==
    {<<i, j>> \in (1..Len(MData["packages"])) \X (1..MaxMetaWeight + 1) :
        /\ j <= Len(MData["packages"][i]["targets"])
        /\ In(MData["packages"][i]["id"], MData["workspace_members"])
        /\ \/ In("bin", MData["packages"][i]["targets"][j]["kind"])
           \/ In("lib", MData["packages"][i]["targets"][j]["kind"])}

Before(p, q) == p[1] < q[1] \/ (p[1] = q[1] /\ p[2] < q[2])

Rank(p) == Cardinality({q \in ArtifactPositions : Before(q, p)}) + 1

\* C4: the artifacts are, in order of packages and of targets within a package,
\* one Binary per target of a workspace member whose kind list contains "bin",
\* one Library per target whose kind list contains "lib" (and not "bin"), and
\* nothing for a target containing neither; nothing is reordered, merged or
\* deduplicated.
C4_ArtifactClassification ==
    pc = "extracted" =>
        /\ Len(Meta.artifacts) = Cardinality(ArtifactPositions)
        /\ \A p \in ArtifactPositions :
              LET t == MData["packages"][p[1]]["targets"][p[2]]
              IN  Meta.artifacts[Rank(p)] =
                      [name |-> t["name"], path |-> t["src_path"],
                       kind |-> IF In("bin", t["kind"]) THEN BIN ELSE LIB]

\* one member package declaring bin, lib and example targets, in that order
C4_Witness ==
    /\ pc = "extracted"
    /\ Len(MData["packages"]) = 1
    /\ MData["workspace_members"] = <<"a 0.1.0">>
    /\ Len(MData["packages"][1]["targets"]) = 3
    /\ MData["packages"][1]["targets"][1]["kind"] = <<"bin">>
    /\ MData["packages"][1]["targets"][2]["kind"] = <<"lib">>
    /\ MData["packages"][1]["targets"][3]["kind"] = <<"example">>
    /\ Meta.artifacts = <<[name |-> "cli", path |-> "src/main.rs", kind |-> BIN],
                          [name |-> "core", path |-> "src/lib.rs", kind |-> LIB]>>

MemberPositions ==
    {i \in 1..Len(MData["packages"]) :
        In(MData["packages"][i]["id"], MData["workspace_members"])}

MemberRank(i) == Cardinality({j \in MemberPositions : j < i}) + 1

\* the metadata document without the packages that are not workspace members
MembersOnly ==
    LET Keep(pkg) == In(pkg["id"], MData["workspace_members"])
    IN  [MData EXCEPT !["packages"] = SelectSeq(MData["packages"], Keep)]

\* C5: a package appears in workspaceMembers iff its id is in workspace_members;
\* a package that is not a member adds nothing to workspaceMembers or
\* artifacts, and a workspace_members id without a package adds no entry.
C5_NonMemberExclusion ==
    pc = "extracted" =>
        /\ Len(Meta.workspaceMembers) = Cardinality(MemberPositions)
        /\ \A i \in MemberPositions :
              LET pkg == MData["packages"][i]
              IN  Meta.workspaceMembers[MemberRank(i)] =
                      [id |-> pkg["id"], name |-> pkg["name"], version |-> pkg["version"],
                       edition |-> pkg["edition"], manifest_path |-> pkg["manifest_path"]]
        /\ Meta.artifacts = CargoMetadata_of(SourcePath, MembersOnly).artifacts
        /\ (MemberPositions = {} => Meta.artifacts = <<>>)

\* a member, a non-member that declares a target, and an id without a package
C5_Witness ==
    /\ pc = "extracted"
    /\ MData["workspace_members"] = <<"ghost 0.1.0", "a 0.1.0">>
    /\ Len(MData["packages"]) = 2
    /\ MData["packages"][1]["id"] = "b 0.1.0"
    /\ Len(MData["packages"][1]["targets"]) = 1
    /\ MData["packages"][2]["id"] = "a 0.1.0"
    /\ Len(Meta.workspaceMembers) = 1
    /\ Meta.workspaceMembers[1].id = "a 0.1.0"
    /\ Meta.artifacts = <<>>

\* C6: when the typed bin list is empty at serialization, the output has no
\* bin key; when it is non-empty, the output's bin key holds the {name, path}
\* dict of each element, in order, whatever the raw document held.
C6_EmptyBinElision ==
    pc = "serialized" =>
        IF Len(M.bin) = 0
        THEN "bin" \notin DOMAIN Out
        ELSE /\ "bin" \in DOMAIN Out
             /\ Len(Out["bin"]) = Len(M.bin)
             /\ \A i \in 1..Len(M.bin) :
                   /\ DOMAIN Out["bin"][i] = {"name", "path"}
                   /\ Out["bin"][i]["name"] = M.bin[i].name
                   /\ Out["bin"][i]["path"] = M.bin[i].path

\* a bin array of two entries was read, the list was replaced by two entries
\* out of alphabetical order, and the output holds these two in list order
C6_Witness ==
    /\ pc = "serialized"
    /\ "bin" \in DOMAIN Raw /\ Raw["bin"] = <<BinEntry(2), BinEntry(1)>>
    /\ M.bin = <<Bin(BinEntry(2)), NewBin>>
    /\ Out["bin"] = <<BinEntry(2), BinEntry(3)>>

\* C7 as stated: a save either succeeds and the target holds exactly the
\* serialized document, or fails and the target holds what it held before.
C7_AllOrNothingSave ==
    /\ pc = "saved" => fs[target] = tomli_w_dumps(Out)
    /\ pc = "save_failed" => fs[target] = InitialFs(Raw)[target]

\* C8 as stated: when the unhandled mapping of a section holds a key that is
\* also a typed field of the section, the output has the typed field's value.
C8_TypedWinsCollision ==
    pc = "serialized" =>
        /\ ~IsNone(M.package) =>
              LET p == Val(M.package)
              IN  /\ "name" \in DOMAIN p.unhandled => Out["package"]["name"] = p.name
                  /\ ("version" \in DOMAIN p.unhandled /\ ~IsNone(p.version))
                        => Out["package"]["version"] = Val(p.version)
                  /\ ("edition" \in DOMAIN p.unhandled /\ ~IsNone(p.edition))
                        => Out["package"]["edition"] = Val(p.edition)
        /\ ~IsNone(M.workspace) =>
              LET w == Val(M.workspace)
              IN  /\ ("members" \in DOMAIN w.unhandled /\ ~IsNone(TruthyList(w.members)))
                        => Out["workspace"]["members"] = Val(w.members)
                  /\ ("package" \in DOMAIN w.unhandled /\ ~IsNone(w.package))
                        => Out["workspace"]["package"]["version"] = Val(w.package).version
                  /\ (~IsNone(w.package) /\ "package" \notin DOMAIN w.unhandled
                      /\ "version" \in DOMAIN Val(w.package).unhandled)
                        => Out["workspace"]["package"]["version"] = Val(w.package).version

\* C9: on read, a package table is split into the typed fields name, version
\* and edition, holding the raw values, and unhandled, holding exactly the
\* other keys with their raw values; a workspace table is split into package,
\* members and unhandled in the same way; the raw tables are not modified.
C9_SplitPartition ==
    (pc = "loaded" /\ nmut = 0) =>
        /\ M._data = Raw
        /\ IsNone(M.package) <=> "package" \notin DOMAIN Raw
        /\ IsNone(M.workspace) <=> "workspace" \notin DOMAIN Raw
        /\ ~IsNone(M.package) =>
              LET p == Val(M.package)
                  t == Raw["package"]
              IN  /\ DOMAIN p.unhandled = DOMAIN t \ {"name", "version", "edition"}
                  /\ \A k \in DOMAIN p.unhandled : p.unhandled[k] = <<t[k]>>
                  /\ p.name = t["name"]
                  /\ p.version = (IF "version" \in DOMAIN t THEN <<t["version"]>> ELSE <<>>)
                  /\ p.edition = (IF "edition" \in DOMAIN t THEN <<t["edition"]>> ELSE <<>>)
        /\ ~IsNone(M.workspace) =>
              LET w == Val(M.workspace)
                  t == Raw["workspace"]
              IN  /\ DOMAIN w.unhandled = DOMAIN t \ {"package", "members"}
                  /\ \A k \in DOMAIN w.unhandled : w.unhandled[k] = <<t[k]>>
                  /\ w.members = (IF "members" \in DOMAIN t THEN <<t["members"]>> ELSE <<>>)
                  /\ IsNone(w.package) <=> "package" \notin DOMAIN t
                  /\ ~IsNone(w.package) =>
                        /\ Val(w.package).version = t["package"]["version"]
                        /\ DOMAIN Val(w.package).unhandled = DOMAIN t["package"] \ {"version"}
                        /\ \A k \in DOMAIN Val(w.package).unhandled :
                              Val(w.package).unhandled[k] = <<t["package"][k]>>

C9_Witness ==
    /\ pc = "loaded" /\ nmut = 0
    /\ "package" \in DOMAIN Raw
    /\ DOMAIN Raw["package"] = {"name", "version", "authors"}
    /\ DOMAIN Val(M.package).unhandled = {"authors"}
    /\ Val(M.package).version = <<"0.1.0">>

\* a section that is None, or present with nothing in it
EmptyDependencies == ~IsNone(M.dependencies) /\ DOMAIN Val(M.dependencies).data = {}
EmptyWorkspace ==
    /\ ~IsNone(M.workspace)
    /\ IsNone(Val(M.workspace).package)
    /\ IsNone(Val(M.workspace).members)
    /\ \A k \in DOMAIN Val(M.workspace).unhandled : IsNone(Val(M.workspace).unhandled[k])

\* C10 as stated: a typed section that is None or empty at serialization is
\* not a key of the output, even when the raw document had the key.
C10_AbsentEmptyRemoved ==
    pc = "serialized" =>
        /\ Len(M.bin) = 0 => "bin" \notin DOMAIN Out
        /\ IsNone(M.package) => "package" \notin DOMAIN Out
        /\ (IsNone(M.workspace) \/ EmptyWorkspace) => "workspace" \notin DOMAIN Out
        /\ (IsNone(M.dependencies) \/ EmptyDependencies) => "dependencies" \notin DOMAIN Out

\* C10 amended: only bin is removed when empty.  A package, workspace or
\* dependencies section that is present overwrites the raw key, also when it
\* is empty (an empty dependencies or workspace section is written as an empty
\* table); one that was set to None leaves the raw key, if any, in the output
\* with its raw value.
C10_SectionOverwrite ==
    pc = "serialized" =>
        /\ Len(M.bin) = 0 => "bin" \notin DOMAIN Out
        /\ Len(M.bin) > 0 => ("bin" \in DOMAIN Out /\ Len(Out["bin"]) = Len(M.bin))
        /\ \A s \in {"package", "workspace", "dependencies"} :
              IF IsNone(M[s])
              THEN /\ s \in DOMAIN Out <=> s \in DOMAIN Raw
                   /\ s \in DOMAIN Raw => Out[s] = Raw[s]
              ELSE s \in DOMAIN Out
        /\ ~IsNone(M.dependencies) => Out["dependencies"] = Val(M.dependencies).data
        /\ (~IsNone(M.package) /\ "name" \notin DOMAIN Val(M.package).unhandled)
              => Out["package"]["name"] = Val(M.package).name
        /\ EmptyWorkspace => DOMAIN Out["workspace"] = {}

\* the package read from the raw document was set to None and is still written
C10_Witness ==
    /\ pc = "serialized"
    /\ "package" \in DOMAIN Raw
    /\ IsNone(M.package)
    /\ "package" \in DOMAIN Out /\ Out["package"] = Raw["package"]

====
